---- MODULE Spec2Model ----
(***************************************************************************)
(* Model of src/worker.js: the kline proxy request handler.                *)
(*                                                                         *)
(* JavaScript strings are sequences of one-character strings, so that      *)
(* toUpperCase, the symbol regular expression, Number(), String(),         *)
(* endsWith and slice are computed character by character.  A pathname is  *)
(* such a sequence too.  One behaviour handles one request: the handler    *)
(* keeps no state between requests.                                        *)
(***************************************************************************)
EXTENDS Integers, Sequences, FiniteSets, TLC

VARIABLES request, pc, upstreamCalls, upstreamResponse, text, error, responses

vars == <<request, pc, upstreamCalls, upstreamResponse, text, error, responses>>

(***************************************************************************)
(* Bounds of the model.                                                    *)
(***************************************************************************)
\* at most this many query parameters are supplied on one request
MaxParams == 2
\* at most this many slashes follow the path's name
MaxSlashes == 2

(***************************************************************************)
(* Program constants.                                                      *)
(***************************************************************************)
DEFAULT_SYMBOL == <<"B", "T", "C", "U", "S", "D", "T">>
DEFAULT_INTERVAL == <<"1", "m">>
DEFAULT_LIMIT == 100
MAX_LIMIT == 1000
\* mutant: an upper-case hour slipped into the set
ALLOWED_INTERVALS_WithUpperHour ==
    { <<"1", "s">>,
      <<"1", "m">>, <<"3", "m">>, <<"5", "m">>, <<"1", "5", "m">>, <<"3", "0", "m">>,
      <<"1", "h">>, <<"1", "H">>, <<"2", "h">>, <<"4", "h">>, <<"6", "h">>, <<"8", "h">>,
      <<"1", "2", "h">>,
      <<"1", "d">>, <<"3", "d">>, <<"1", "w">>, <<"1", "M">> }

ALLOWED_INTERVALS ==
    { <<"1", "s">>,
      <<"1", "m">>, <<"3", "m">>, <<"5", "m">>, <<"1", "5", "m">>, <<"3", "0", "m">>,
      <<"1", "h">>, <<"2", "h">>, <<"4", "h">>, <<"6", "h">>, <<"8", "h">>,
      <<"1", "2", "h">>,
      <<"1", "d">>, <<"3", "d">>, <<"1", "w">>, <<"1", "M">> }

(***************************************************************************)
(* JavaScript values: null, a string, or a number.  A number is NaN or a   *)
(* finite decimal given by its sign, its integer part and whether its      *)
(* fraction is non-zero, which is all that <, <=, > and Math.trunc read.   *)
(***************************************************************************)
JSNull == [t |-> "null", s |-> <<>>]
JSStr(s) == [t |-> "str", s |-> s]
JSNum(n) == [t |-> "num", s |-> <<>>, n |-> n]

NaN == [nan |-> TRUE, neg |-> FALSE, ip |-> 0, fz |-> FALSE]
Finite(neg, ip, fz) == [nan |-> FALSE, neg |-> neg, ip |-> ip, fz |-> fz]
FromInt(n) == Finite(FALSE, n, FALSE)

Digits == <<"0", "1", "2", "3", "4", "5", "6", "7", "8", "9">>
DigitChars == {Digits[i] : i \in 1..10}
DigitValue(c) == (CHOOSE i \in 1..10 : Digits[i] = c) - 1

UpperLetters ==
    {"A", "B", "C", "D", "E", "F", "G", "H", "I", "J", "K", "L", "M",
     "N", "O", "P", "Q", "R", "S", "T", "U", "V", "W", "X", "Y", "Z"}

\* lower-case letters and their upper-case forms
LowerToUpper ==
    [c \in {"a", "b", "c", "d", "e", "h", "m", "s", "t", "u", "w", "y"} |->
        CASE c = "a" -> "A" [] c = "b" -> "B" [] c = "c" -> "C" [] c = "d" -> "D"
          [] c = "e" -> "E" [] c = "h" -> "H" [] c = "m" -> "M" [] c = "s" -> "S"
          [] c = "t" -> "T" [] c = "u" -> "U" [] c = "w" -> "W" [] c = "y" -> "Y"]

toUpperCase(s) ==
    [i \in 1..Len(s) |-> IF s[i] \in DOMAIN LowerToUpper THEN LowerToUpper[s[i]] ELSE s[i]]

RECURSIVE DigitsToNat(_)
DigitsToNat(s) ==
    IF s = <<>> THEN 0
    ELSE 10 * DigitsToNat(SubSeq(s, 1, Len(s) - 1)) + DigitValue(s[Len(s)])

AllDigits(s) == \A i \in 1..Len(s) : s[i] \in DigitChars

\* Number() of a string made of digits, "-", "." and other characters:
\* [-] digits [. digits] with at least one digit, the empty string is 0
StringToNumber(s) ==
    IF s = <<>> THEN FromInt(0)
    ELSE
      LET neg == s[1] = "-"
          body == IF neg THEN Tail(s) ELSE s
          dots == {i \in 1..Len(body) : body[i] = "."}
          dot == IF dots = {} THEN Len(body) + 1 ELSE CHOOSE i \in dots : TRUE
          intPart == SubSeq(body, 1, dot - 1)
          fracPart == SubSeq(body, dot + 1, Len(body))
      IN IF Cardinality(dots) > 1 \/ ~AllDigits(intPart) \/ ~AllDigits(fracPart)
            \/ Len(intPart) + Len(fracPart) = 0
         THEN NaN
         ELSE Finite(neg, DigitsToNat(intPart),
                     \E i \in 1..Len(fracPart) : fracPart[i] # "0")

\* Number(value) for null, for a non-negative integer and for a string
Number(value) ==
    CASE value.t = "null" -> FromInt(0)
      [] value.t = "num" -> FromInt(value.n)
      [] OTHER -> StringToNumber(value.s)

isFinite(n) == ~n.nan
IsZero(n) == ~n.nan /\ n.ip = 0 /\ ~n.fz
\* n < 0 and n <= 0 (false for NaN)
LessThanZero(n) == ~n.nan /\ n.neg /\ ~IsZero(n)
AtMostZero(n) == ~n.nan /\ (IsZero(n) \/ n.neg)
\* Math.trunc of a finite number that is not negative
trunc(n) == n.ip

RECURSIVE String(_)
\* String(n) of a non-negative integer
String(n) ==
    IF n < 10 THEN <<Digits[n + 1]>>
    ELSE Append(String(n \div 10), Digits[(n % 10) + 1])

Min(a, b) == IF a < b THEN a ELSE b

\* value || fallback, for a string or null
OrElse(value, fallback) ==
    IF value.t = "null" \/ value.s = <<>> THEN fallback ELSE value.s

(***************************************************************************)
(* The helper functions of the worker.                                     *)
(***************************************************************************)
TimeNull == [null |-> TRUE, n |-> 0]
TimeOf(n) == [null |-> FALSE, n |-> n]

\* mutant: the !value test is dropped, so "" is read as Number("") = 0
parseTime_EmptyIsZero(value) ==
    IF value.t = "null" THEN TimeNull
    ELSE LET parsed == Number(value)
         IN IF ~isFinite(parsed) \/ LessThanZero(parsed) THEN TimeNull
            ELSE TimeOf(trunc(parsed))

parseTime(value) ==
    IF value.t = "null" \/ value.s = <<>> THEN TimeNull
    ELSE LET parsed == Number(value)
         IN IF ~isFinite(parsed) \/ LessThanZero(parsed) THEN TimeNull
            ELSE TimeOf(trunc(parsed))

clampLimit(rawLimit) ==
    LET parsed == Number(rawLimit)
    IN IF ~isFinite(parsed) \/ AtMostZero(parsed) THEN DEFAULT_LIMIT
       ELSE Min(trunc(parsed), MAX_LIMIT)

\* JSON.parse accepts the text: a value of the grammar
\*   value ::= 1 | [] | [ value {, value} ]
RECURSIVE IsJSONValue(_), IsJSONElements(_)
IsJSONValue(body) ==
    \/ body = <<"1">>
    \/ body = <<"[", "]">>
    \/ /\ Len(body) >= 3
       /\ body[1] = "["
       /\ body[Len(body)] = "]"
       /\ IsJSONElements(SubSeq(body, 2, Len(body) - 1))

IsJSONElements(body) ==
    \/ IsJSONValue(body)
    \/ \E i \in 2..(Len(body) - 1) :
          /\ body[i] = ","
          /\ IsJSONValue(SubSeq(body, 1, i - 1))
          /\ IsJSONElements(SubSeq(body, i + 1, Len(body)))

\* the parsed value is written as its JSON text, which JSON.stringify
\* gives back for the texts of this grammar
safeParseJSON(body) ==
    IF IsJSONValue(body) THEN [json |-> body] ELSE [raw |-> body]

corsHeaders ==
    [AccessControlAllowOrigin |-> "*",
     AccessControlAllowMethods |-> "GET,OPTIONS",
     AccessControlAllowHeaders |-> "Content-Type"]

jsonResponse(payload, status) ==
    [status |-> status,
     body |-> payload,
     contentType |-> "application/json; charset=utf-8",
     headers |-> corsHeaders]

\* new Response(null, { status: 204, headers: corsHeaders() })
emptyResponse == [status |-> 204, body |-> JSNull, headers |-> corsHeaders]

(***************************************************************************)
(* The request: method, url.pathname and url.searchParams.                 *)
(***************************************************************************)
get(searchParams, name) ==
    IF name \in DOMAIN searchParams THEN JSStr(searchParams[name]) ELSE JSNull

endsWithSlash(path) == Len(path) > 0 /\ path[Len(path)] = "/"
\* path.slice(0, -1)
sliceLast(path) == SubSeq(path, 1, Len(path) - 1)

ROOT == <<"/">>
HEALTH == <<"/", "h", "e", "a", "l", "t", "h">>
KLINE == <<"/", "k", "l", "i", "n", "e">>
KLINES == <<"/", "k", "l", "i", "n", "e", "s">>

\* line 42
normalizedPathname(path) ==
    IF endsWithSlash(path) /\ path # ROOT THEN sliceLast(path) ELSE path

\* mutant: the quantifier is {4,20}
symbolMatches_FromFour(symbol) ==
    /\ Len(symbol) >= 4
    /\ Len(symbol) <= 20
    /\ \A i \in 1..Len(symbol) : symbol[i] \in UpperLetters \cup DigitChars

\* /^[A-Z0-9]{5,20}$/.test(symbol)
symbolMatches(symbol) ==
    /\ Len(symbol) >= 5
    /\ Len(symbol) <= 20
    /\ \A i \in 1..Len(symbol) : symbol[i] \in UpperLetters \cup DigitChars

\* the const bindings of lines 54-58
symbolOf(req) == toUpperCase(OrElse(get(req.searchParams, "symbol"), DEFAULT_SYMBOL))
intervalOf(req) == OrElse(get(req.searchParams, "interval"), DEFAULT_INTERVAL)
limitOf(req) == clampLimit(get(req.searchParams, "limit"))
startTimeOf(req) == parseTime(get(req.searchParams, "startTime"))
endTimeOf(req) == parseTime(get(req.searchParams, "endTime"))

\* lines 72-79: the URLSearchParams of the upstream call
upstreamQuery(req) ==
    LET keys == {"symbol", "interval", "limit"}
                  \cup (IF startTimeOf(req).null THEN {} ELSE {"startTime"})
                  \cup (IF endTimeOf(req).null THEN {} ELSE {"endTime"})
    IN [k \in keys |->
          CASE k = "symbol" -> symbolOf(req)
            [] k = "interval" -> intervalOf(req)
            [] k = "limit" -> String(limitOf(req))
            [] k = "startTime" -> String(startTimeOf(req).n)
            [] k = "endTime" -> String(endTimeOf(req).n)]

upstreamCall(req) ==
    [base |-> "https://api.binance.com",
     path |-> "/api/v3/klines",
     query |-> upstreamQuery(req),
     userAgent |-> "kline-worker/1.0"]

rootPayload ==
    [service |-> "binance-kline-api",
     status |-> "ok",
     endpoints |-> [health |-> "/health",
                    kline |-> "/kline?symbol=BTCUSDT&interval=1m&limit=100",
                    klines |-> "/klines?symbol=ETHUSDT&interval=5m&limit=200"],
     note |-> "Use /kline or /klines with query params: symbol, interval, limit, startTime, endTime"]

\* mutant: the branch ends without returning its response
Returned_NoResponse(response) == [pc |-> "done", responses |-> <<>>, upstreamCalls |-> <<>>]

Returned(response) == [pc |-> "done", responses |-> <<response>>, upstreamCalls |-> <<>>]

\* lines 60-70: the three validation checks, in the order of the code
validate(req) ==
    IF ~symbolMatches(symbolOf(req))
    THEN <<jsonResponse([error |-> "Invalid symbol format"], 400)>>
    ELSE IF intervalOf(req) \notin ALLOWED_INTERVALS
    THEN <<jsonResponse([error |-> "Invalid interval"], 400)>>
    ELSE IF /\ ~startTimeOf(req).null
            /\ ~endTimeOf(req).null
            /\ startTimeOf(req).n > endTimeOf(req).n
    THEN <<jsonResponse([error |-> "startTime must be <= endTime"], 400)>>
    ELSE <<>>

\* lines 25-52: the response of the path checks, none for /kline and /klines
route(path) ==
    IF path = ROOT \/ path = <<>>
    THEN <<jsonResponse(rootPayload, 200)>>
    ELSE IF path = HEALTH
    THEN <<jsonResponse([status |-> "ok"], 200)>>
    ELSE IF normalizedPathname(path) # KLINE /\ normalizedPathname(path) # KLINES
    THEN <<jsonResponse(
             [error |-> "Not Found",
              message |-> "Use /kline or /klines with query params: symbol, interval, limit, startTime, endTime"],
             404)>>
    ELSE <<>>

\* mutant: the upstream call is issued before the validation result is read
handle_CallBeforeValidation(req) ==
    IF req.method # "GET" /\ req.method # "OPTIONS"
    THEN Returned(jsonResponse([error |-> "Method Not Allowed",
                                message |-> "Use GET requests only."], 405))
    ELSE IF req.method = "OPTIONS"
    THEN Returned(emptyResponse)
    ELSE IF route(req.pathname) # <<>>
    THEN Returned(route(req.pathname)[1])
    ELSE IF validate(req) # <<>>
    THEN [pc |-> "done", responses |-> validate(req),
          upstreamCalls |-> <<upstreamCall(req)>>]
    ELSE [pc |-> "awaitFetch", responses |-> <<>>, upstreamCalls |-> <<upstreamCall(req)>>]

\* mutant: the OPTIONS branch is missing, a preflight is routed like a GET
handle_NoPreflight(req) ==
    IF req.method # "GET" /\ req.method # "OPTIONS"
    THEN Returned(jsonResponse([error |-> "Method Not Allowed",
                                message |-> "Use GET requests only."], 405))
    ELSE IF route(req.pathname) # <<>>
    THEN Returned(route(req.pathname)[1])
    ELSE IF validate(req) # <<>>
    THEN Returned(validate(req)[1])
    ELSE [pc |-> "awaitFetch", responses |-> <<>>, upstreamCalls |-> <<upstreamCall(req)>>]

\* lines 15-88: the handler up to its first await, or to its return
handle(req) ==
    IF req.method # "GET" /\ req.method # "OPTIONS"
    THEN Returned(jsonResponse([error |-> "Method Not Allowed",
                                message |-> "Use GET requests only."], 405))
    ELSE IF req.method = "OPTIONS"
    THEN Returned(emptyResponse)
    ELSE IF route(req.pathname) # <<>>
    THEN Returned(route(req.pathname)[1])
    ELSE IF validate(req) # <<>>
    THEN Returned(validate(req)[1])
    ELSE [pc |-> "awaitFetch", responses |-> <<>>, upstreamCalls |-> <<upstreamCall(req)>>]

(***************************************************************************)
(* The requests and the upstream outcomes the model draws from.            *)
(***************************************************************************)
Methods == {"GET", "OPTIONS", "POST"}

PathNames ==
    { <<>>,
      <<"k", "l", "i", "n", "e">>,
      <<"k", "l", "i", "n", "e", "s">>,
      <<"h", "e", "a", "l", "t", "h">>,
      <<"a">> }

RECURSIVE Slashes(_)
Slashes(k) == IF k = 0 THEN <<>> ELSE <<"/">> \o Slashes(k - 1)

\* url.pathname always starts with a slash
Pathnames == { <<"/">> \o name \o Slashes(k) : name \in PathNames, k \in 0..MaxSlashes }

SymbolValues ==
    { <<>>,
      <<"b", "t", "c">>,
      <<"B", "T", "C", "_", "U", "S", "D", "T">>,
      <<"b", "t", "c", "u", "s", "d", "t">>,
      <<"E", "T", "H", "U">>,
      <<"E", "T", "H", "U", "S">>,
      <<"1", "0", "0", "0", "S", "H", "I", "B", "1", "0", "0", "0", "S", "H", "I", "B", "U", "S", "D", "T">>,
      <<"1", "0", "0", "0", "S", "H", "I", "B", "1", "0", "0", "0", "S", "H", "I", "B", "U", "S", "D", "T", "1">> }

IntervalValues ==
    { <<>>, <<"1", "m">>, <<"1", "M">>, <<"1", "H">>, <<"2", "m">>, <<"1", "Y">> }

LimitValues ==
    { <<>>, <<"a", "b", "c">>, <<"-", "5">>, <<"0">>, <<"0", ".", "5">>,
      <<"2", "5", "0">>, <<"2", "5", "0", ".", "9">>,
      <<"1", "0", "0", "1">>, <<"5", "0", "0", "0">> }

TimeValues ==
    { <<>>, <<"-", "1">>, <<"a", "b", "c">>, <<"1", "0", "0", "0">>,
      <<"1", "0", "0", "0", ".", "7">>, <<"2", "0", "0", "0">> }

ParamNames == {"symbol", "interval", "limit", "startTime", "endTime"}

ValuesOf(name) ==
    CASE name = "symbol" -> SymbolValues
      [] name = "interval" -> IntervalValues
      [] name = "limit" -> LimitValues
      [] OTHER -> TimeValues

SearchParams ==
    UNION { { q \in [D -> UNION {ValuesOf(n) : n \in D}] : \A n \in D : q[n] \in ValuesOf(n) }
            : D \in {E \in SUBSET ParamNames : Cardinality(E) <= MaxParams} }

Requests == [method : Methods, pathname : Pathnames, searchParams : SearchParams]

Statuses == {200, 299, 300, 418, 500}

Texts ==
    { <<>>, <<"[", "]">>, <<"[", "1", ",", "[", "1", "]", "]">>, <<"[", "1">> }

Messages == {"fetch failed", "body stream error"}

(***************************************************************************)
(* The state machine.                                                      *)
(***************************************************************************)
NoRequest == [method |-> "", pathname |-> <<>>, searchParams |-> <<>>]
NoUpstreamResponse == [status |-> 0, ok |-> FALSE]
NoError == [thrown |-> FALSE, message |-> ""]

Init ==
    /\ request = NoRequest
    /\ pc = "idle"
    /\ upstreamCalls = <<>>
    /\ upstreamResponse = NoUpstreamResponse
    /\ text = JSNull
    /\ error = NoError
    /\ responses = <<>>

\* the handler is entered with a request and runs to its first await or return
fetch(req) ==
    /\ pc = "idle"
    /\ request' = req
    /\ pc' = handle(req).pc
    /\ responses' = handle(req).responses
    /\ upstreamCalls' = handle(req).upstreamCalls
    /\ UNCHANGED <<upstreamResponse, text, error>>

\* line 84: the upstream fetch settles with a response
fetchResolved(status) ==
    /\ pc = "awaitFetch"
    /\ upstreamResponse' = [status |-> status, ok |-> status >= 200 /\ status <= 299]
    /\ pc' = "awaitText"
    /\ UNCHANGED <<request, upstreamCalls, text, error, responses>>

\* lines 110-117
catch(message) ==
    jsonResponse([error |-> "Failed to fetch Binance kline data", message |-> message], 502)

\* line 84 throws: the catch clause responds
fetchRejected(message) ==
    /\ pc = "awaitFetch"
    /\ error' = [thrown |-> TRUE, message |-> message]
    /\ responses' = Append(responses, catch(message))
    /\ pc' = "done"
    /\ UNCHANGED <<request, upstreamCalls, upstreamResponse, text>>

\* mutant: the upstream status is passed through as the response status
respond_PassStatus(req, upstream, body) ==
    IF ~upstream.ok
    THEN jsonResponse([error |-> "Upstream error",
                       status |-> upstream.status,
                       details |-> safeParseJSON(body)], upstream.status)
    ELSE jsonResponse([symbol |-> symbolOf(req),
                       interval |-> intervalOf(req),
                       limit |-> limitOf(req),
                       source |-> "binance",
                       data |-> safeParseJSON(body)], 200)

\* lines 92-109
respond(req, upstream, body) ==
    IF ~upstream.ok
    THEN jsonResponse([error |-> "Upstream error",
                       status |-> upstream.status,
                       details |-> safeParseJSON(body)], 502)
    ELSE jsonResponse([symbol |-> symbolOf(req),
                       interval |-> intervalOf(req),
                       limit |-> limitOf(req),
                       source |-> "binance",
                       data |-> safeParseJSON(body)], 200)

\* line 90: the body is read, then lines 92-109
textResolved(body) ==
    /\ pc = "awaitText"
    /\ text' = JSStr(body)
    /\ responses' = Append(responses, respond(request, upstreamResponse, body))
    /\ pc' = "done"
    /\ UNCHANGED <<request, upstreamCalls, upstreamResponse, error>>

\* line 90 throws: the catch clause responds
textRejected(message) ==
    /\ pc = "awaitText"
    /\ error' = [thrown |-> TRUE, message |-> message]
    /\ responses' = Append(responses, catch(message))
    /\ pc' = "done"
    /\ UNCHANGED <<request, upstreamCalls, upstreamResponse, text>>

\* a request arrives
receive == pc = "idle" /\ \E req \in Requests : fetch(req)

Next ==
    \/ receive
    \/ \E status \in Statuses : fetchResolved(status)
    \/ \E message \in Messages : fetchRejected(message)
    \/ \E body \in Texts : textResolved(body)
    \/ \E message \in Messages : textRejected(message)

Spec == Init /\ [][Next]_vars

\* the upstream call settles (its promise, then the promise of its body),
\* and a settled promise resumes the handler
Settle ==
    \/ \E status \in Statuses : fetchResolved(status)
    \/ \E message \in Messages : fetchRejected(message)
    \/ \E body \in Texts : textResolved(body)
    \/ \E message \in Messages : textRejected(message)

FairSpec == Spec /\ WF_vars(Settle)

(***************************************************************************)
(* The properties.  They are stated from the request and the observable    *)
(* outcome (responses, upstream calls), with the expected values written   *)
(* out, not through the handler's own operators.                           *)
(***************************************************************************)
Handled == pc # "idle"
IsGet == request.method = "GET"
KlinePaths == {KLINE, KLINES, KLINE \o <<"/">>, KLINES \o <<"/">>}
OnKline == Handled /\ IsGet /\ request.pathname \in KlinePaths
Supplied(name) == name \in DOMAIN request.searchParams

\* the handler returned without an upstream call, with this status and error
RejectedWith(status, message) ==
    /\ pc = "done"
    /\ upstreamCalls = <<>>
    /\ Len(responses) = 1
    /\ responses[1].status = status
    /\ "error" \in DOMAIN responses[1].body
    /\ responses[1].body.error = message

InvalidSymbol == RejectedWith(400, "Invalid symbol format")
InvalidInterval == RejectedWith(400, "Invalid interval")
InvalidRange == RejectedWith(400, "startTime must be <= endTime")
ValidationFailed == InvalidSymbol \/ InvalidInterval \/ InvalidRange
Forwarded == Len(upstreamCalls) = 1

LowerLetters ==
    {"a", "b", "c", "d", "e", "f", "g", "h", "i", "j", "k", "l", "m",
     "n", "o", "p", "q", "r", "s", "t", "u", "v", "w", "x", "y", "z"}

\* the value matches ^[A-Z0-9]{5,20}$ once its letters are upper-cased
MatchesAfterUppercasing(value) ==
    /\ Len(value) \in 5..20
    /\ \A i \in 1..Len(value) :
          value[i] \in UpperLetters \cup LowerLetters \cup DigitChars

\* C1: at most one upstream call per request; a call is issued only for a
\* GET on /kline or /klines; such a request either fails validation with a
\* 400 and no call, or issues exactly one call; an upstream failure (502)
\* follows exactly one call; every other request issues none.
C1_OneUpstreamCall ==
    /\ Len(upstreamCalls) <= 1
    /\ Forwarded => OnKline
    /\ OnKline => ((ValidationFailed /\ ~Forwarded) \/ (Forwarded /\ ~ValidationFailed))
    /\ (Handled /\ ~(IsGet /\ request.pathname \in KlinePaths)) => upstreamCalls = <<>>
    /\ \A i \in 1..Len(responses) :
          /\ responses[i].status = 400 => upstreamCalls = <<>>
          /\ responses[i].status = 502 => Len(upstreamCalls) = 1

\* an upstream failure was surfaced as a 502 after exactly one call
C1_Witness ==
    /\ pc = "done"
    /\ error.thrown
    /\ Len(upstreamCalls) = 1
    /\ responses[1].status = 502

\* the texts of Texts that are JSON, and the best-effort parse expected
JSONTexts == { <<"[", "]">>, <<"[", "1", ",", "[", "1", "]", "]">> }
BestEffort(body) == IF body \in JSONTexts THEN [json |-> body] ELSE [raw |-> body]

\* C2: once the single upstream call of a validated request has settled,
\* the response is: 502 'Failed to fetch' with the message when the call
\* (or the reading of its body) failed; 502 'Upstream error' with the
\* upstream status and the best-effort parsed body when the status is not
\* 2xx; 200 with source and the best-effort parsed body as data otherwise.
C2_UpstreamOutcomeMapped ==
    (pc = "done" /\ Forwarded) =>
        /\ Len(responses) = 1
        /\ responses[1].status \in {200, 502}
        /\ IF error.thrown
           THEN /\ responses[1].status = 502
                /\ responses[1].body =
                      [error |-> "Failed to fetch Binance kline data",
                       message |-> error.message]
           ELSE IF upstreamResponse.status \notin 200..299
           THEN /\ responses[1].status = 502
                /\ responses[1].body =
                      [error |-> "Upstream error",
                       status |-> upstreamResponse.status,
                       details |-> BestEffort(text.s)]
           ELSE /\ responses[1].status = 200
                /\ responses[1].body.source = "binance"
                /\ responses[1].body.data = BestEffort(text.s)
                /\ DOMAIN responses[1].body = {"symbol", "interval", "limit", "source", "data"}

\* upstream 418 with a body that is not JSON was mapped to 502/status 418
C2_Witness ==
    /\ pc = "done"
    /\ upstreamResponse.status = 418
    /\ text = JSStr(<<"[", "1">>)
    /\ responses[1].status = 502
    /\ responses[1].body.status = 418
    /\ responses[1].body.details = [raw |-> <<"[", "1">>]

\* C3 as stated: on a GET to /kline or /klines, a supplied symbol that
\* matches after upper-casing passes symbol validation, and every other
\* supplied value, the empty string included, is rejected with 400
\* InvalidSymbol and not forwarded.
C3_Original ==
    (OnKline /\ Supplied("symbol")) =>
        IF MatchesAfterUppercasing(request.searchParams["symbol"])
        THEN ~InvalidSymbol
        ELSE InvalidSymbol /\ ~Forwarded

\* C3 amended: the same for every non-empty supplied value; an empty value
\* is treated as absent: symbol validation passes and, when the request is
\* forwarded, the symbol sent upstream is BTCUSDT.
C3_SymbolValidation ==
    (OnKline /\ Supplied("symbol")) =>
        LET value == request.searchParams["symbol"]
        IN IF value = <<>>
           THEN /\ ~InvalidSymbol
                /\ Forwarded => upstreamCalls[1].query["symbol"]
                                   = <<"B", "T", "C", "U", "S", "D", "T">>
           ELSE IF MatchesAfterUppercasing(value)
           THEN /\ ~InvalidSymbol
                /\ Forwarded => /\ Len(upstreamCalls[1].query["symbol"]) = Len(value)
                                /\ \A i \in 1..Len(value) :
                                      upstreamCalls[1].query["symbol"][i]
                                         \in UpperLetters \cup DigitChars
           ELSE InvalidSymbol /\ ~Forwarded

\* a lower-case symbol was accepted and forwarded in upper case
C3_Witness ==
    /\ OnKline
    /\ Supplied("symbol")
    /\ request.searchParams["symbol"] = <<"b", "t", "c", "u", "s", "d", "t">>
    /\ Forwarded
    /\ upstreamCalls[1].query["symbol"] = <<"B", "T", "C", "U", "S", "D", "T">>

\* the limit the upstream call carries, as a number
ForwardedLimit == DigitsToNat(upstreamCalls[1].query["limit"])

\* C4 as stated: the clamp is total and idempotent: clamping the limit
\* that was forwarded upstream gives that limit again, and the listed
\* values are clamped as listed.
C4_ClampIdempotent ==
    /\ (OnKline /\ Forwarded) =>
          /\ clampLimit(JSNum(ForwardedLimit)) = ForwardedLimit
          /\ clampLimit(JSStr(upstreamCalls[1].query["limit"])) = ForwardedLimit
    /\ clampLimit(JSStr(<<"-", "5">>)) = 100
    /\ clampLimit(JSStr(<<"0">>)) = 100
    /\ clampLimit(JSStr(<<"a", "b", "c">>)) = 100
    /\ clampLimit(JSNull) = 100
    /\ clampLimit(JSStr(<<"5", "0", "0", "0">>)) = 1000
    /\ clampLimit(JSStr(<<"2", "5", "0">>)) = 250
    /\ clampLimit(JSStr(<<"2", "5", "0", ".", "9">>)) = 250

\* the time a raw startTime / endTime value stands for: -1 is none
ExpectedTime(name) ==
    IF ~Supplied(name) THEN -1
    ELSE LET value == request.searchParams[name]
         IN CASE value = <<"1", "0", "0", "0">> -> 1000
              [] value = <<"1", "0", "0", "0", ".", "7">> -> 1000
              [] value = <<"2", "0", "0", "0">> -> 2000
              [] OTHER -> -1

\* C5: on a GET to /kline or /klines that passes symbol and interval
\* validation, the response is 400 InvalidRange if and only if both times
\* are provided and startTime > endTime; absent, empty, non-numeric and
\* negative times are not provided and cause no error; the times sent
\* upstream are the truncated ones, and startTime <= endTime when both are sent.
C5_RangeRule ==
    (OnKline /\ ~InvalidSymbol /\ ~InvalidInterval) =>
        LET start == ExpectedTime("startTime")
            end == ExpectedTime("endTime")
        IN /\ InvalidRange <=> (start # -1 /\ end # -1 /\ start > end)
           /\ ~InvalidRange => Forwarded
           /\ Forwarded =>
                LET query == upstreamCalls[1].query
                IN /\ "startTime" \in DOMAIN query <=> start # -1
                   /\ "endTime" \in DOMAIN query <=> end # -1
                   /\ start # -1 => DigitsToNat(query["startTime"]) = start
                   /\ end # -1 => DigitsToNat(query["endTime"]) = end
                   /\ (start # -1 /\ end # -1) => start <= end

\* startTime=2000&endTime=1000.7 was rejected with InvalidRange
C5_Witness ==
    /\ OnKline
    /\ Supplied("startTime")
    /\ Supplied("endTime")
    /\ request.searchParams["startTime"] = <<"2", "0", "0", "0">>
    /\ request.searchParams["endTime"] = <<"1", "0", "0", "0", ".", "7">>
    /\ InvalidRange

\* the enumerated intervals of the specification
SpecIntervals ==
    { <<"1", "s">>, <<"1", "m">>, <<"3", "m">>, <<"5", "m">>, <<"1", "5", "m">>,
      <<"3", "0", "m">>, <<"1", "h">>, <<"2", "h">>, <<"4", "h">>, <<"6", "h">>,
      <<"8", "h">>, <<"1", "2", "h">>, <<"1", "d">>, <<"3", "d">>, <<"1", "w">>,
      <<"1", "M">> }

\* C6 as stated: on a GET to /kline or /klines, every supplied interval
\* that is not in the set is rejected with 400 InvalidInterval and not
\* forwarded.
C6_Original ==
    (OnKline /\ Supplied("interval") /\ request.searchParams["interval"] \notin SpecIntervals)
        => InvalidInterval /\ ~Forwarded

\* the symbol of the request passes symbol validation
SymbolAcceptable ==
    \/ ~Supplied("symbol")
    \/ request.searchParams["symbol"] = <<>>
    \/ MatchesAfterUppercasing(request.searchParams["symbol"])

\* C6 amended: every supplied non-empty interval that is not in the set is
\* rejected with a 400 and not forwarded; the 400 is InvalidInterval when
\* the symbol is valid and InvalidSymbol otherwise (the symbol is checked
\* first).  An empty interval is treated as absent and stands for 1m.  A
\* member of the set is never rejected as an invalid interval and is
\* forwarded unchanged: 1m and 1M are accepted as distinct values.
C6_IntervalValidation ==
    (OnKline /\ Supplied("interval")) =>
        LET value == request.searchParams["interval"]
        IN IF value = <<>>
           THEN /\ ~InvalidInterval
                /\ Forwarded => upstreamCalls[1].query["interval"] = <<"1", "m">>
           ELSE IF value \in SpecIntervals
           THEN /\ ~InvalidInterval
                /\ Forwarded => upstreamCalls[1].query["interval"] = value
           ELSE /\ ~Forwarded
                /\ IF SymbolAcceptable THEN InvalidInterval ELSE InvalidSymbol

\* interval=1H was rejected although 1h is a member
C6_Witness ==
    /\ OnKline
    /\ Supplied("interval")
    /\ request.searchParams["interval"] = <<"1", "H">>
    /\ InvalidInterval

\* request and outcome without the request: what the handler gave
Outcome == [pc |-> pc, responses |-> responses, upstreamCalls |-> upstreamCalls]

\* C7 as stated, for the paths p that do not themselves end in a slash
\* (/kline, /klines, /health, ...): a GET to p followed by one trailing
\* slash gives what a GET to p with the same query gives, up to the first
\* await.
C7_TrailingSlashEquivalent ==
    (pc \in {"done", "awaitFetch"} /\ upstreamResponse = NoUpstreamResponse /\ ~error.thrown
       /\ IsGet /\ endsWithSlash(request.pathname)
       /\ ~endsWithSlash(sliceLast(request.pathname)))
      => Outcome = handle([request EXCEPT !.pathname = sliceLast(request.pathname)])

ResponseCount == Len(responses)

C9_MethodFirst ==
    (Handled /\ ~IsGet) =>
        /\ pc = "done"
        /\ upstreamCalls = <<>>
        /\ Len(responses) = 1
        /\ IF request.method = "OPTIONS"
           THEN responses[1].status = 204 /\ responses[1].body = JSNull
           ELSE /\ responses[1].status = 405
                /\ responses[1].body.error = "Method Not Allowed"

\* a POST to /kline with an invalid symbol was answered 405
C9_Witness ==
    /\ Handled
    /\ request.method = "POST"
    /\ request.pathname = KLINE
    /\ Supplied("symbol")
    /\ request.searchParams["symbol"] = <<"b", "t", "c">>
    /\ responses[1].status = 405

\* C10 as stated: the limit of every upstream call is between 1 and 1000,
\* and the limit of a Success envelope is the one forwarded.
C10_LimitInRange ==
    /\ Forwarded => ForwardedLimit \in 1..1000
    /\ \A i \in 1..Len(responses) :
          responses[i].status = 200 /\ "limit" \in DOMAIN responses[i].body
             => /\ responses[i].body.limit \in 1..1000
                /\ responses[i].body.limit = ForwardedLimit

====
